---- MODULE Spec2Model ----
(***************************************************************************)
(* GreenView: the spatial metrics and scoring engine (src/metrics.py).     *)
(*                                                                         *)
(* Geometry is modelled on a strip of NCells unit cells: a geometry covers *)
(* a set of cells, its parts are the maximal runs of adjacent cells, the   *)
(* intersection of two geometries is the intersection of their cell sets   *)
(* and its area in the metric projection is CellArea per cell.  Numbers    *)
(* that the program holds as floats are exact fractions [n, d]; a float    *)
(* division by zero is kept as the fraction n/0 (inf) and as NaN.          *)
(***************************************************************************)
EXTENDS Integers, Sequences, FiniteSets, TLC

\* ---------------------------------------------------------------- bounds
NCells == 3
MaxPop == 1
MaxGreens == 1
CellArea == 2

\* ------------------------------------------------------ program constants
EPSG_GEO == 4326
EPSG_METERS == 3857
ScoreSpan == 99
ScoreBase == 1
ScoreMin == 1
ScoreMax == 100

Cells == 1..NCells
GEOIDS == <<"A", "B">>
\* a population cell holds <<n>>, or <<>> when it is null (NaN)
NullPop == <<>>
PopValues == {NullPop} \cup {<<n>> : n \in -1..MaxPop}
\* the float 0/0
NaN == [n |-> 0, d |-> 0]
\* a table variable that holds nothing yet
NoTable == [crs |-> 0, columns |-> {}, rows |-> <<>>]
AllColumns == {"GEOID", "population", "geometry"}

VARIABLES
    city_bg,         \* input A: [crs, columns, rows], rows of [GEOID, population, geometry]
    greens,          \* input B: [crs, columns, rows], rows of [geometry]
    bufferRaises,    \* whether GeoSeries.buffer(0) raises on these geometries
    pc,              \* position in main / compute_metrics
    failedAt,        \* the position at which an exception was raised, or "none"
    city_bg_meters,  \* local of compute_metrics
    green_meters,    \* local of compute_metrics
    intersect,       \* local of compute_metrics: the overlay fragments
    green_by_bg,     \* local of compute_metrics: GEOID -> summed fragment area
    output,          \* local of compute_metrics: the table being enriched
    percentage_norm, \* local of compute_metrics
    per_person_norm, \* local of compute_metrics
    city_score,      \* the value compute_metrics returned to main, or NoTable
    outfile          \* data/processed/bg_metrics.geojson, or NoTable

vars == <<city_bg, greens, bufferRaises, pc, failedAt, city_bg_meters, green_meters,
          intersect, green_by_bg, output, percentage_norm, per_person_norm,
          city_score, outfile>>

\* -------------------------------------------------------------- geometry
NullGeom == [kind |-> "Null", cells |-> {}, valid |-> TRUE]
PointGeom == [kind |-> "Point", cells |-> {}, valid |-> TRUE]
LineGeom == [kind |-> "LineString", cells |-> {}, valid |-> TRUE]

IsRun(S) == \A c \in S : \A d \in S : \A e \in c..d : e \in S

\* the polygonal geometry covering the cells S
Poly(S, ok) ==
    [kind |-> IF IsRun(S) THEN "Polygon" ELSE "MultiPolygon", cells |-> S, valid |-> ok]

\* geometry.area, in the units of the table's coordinate system
Area(geom, crs) ==
    IF crs = EPSG_METERS THEN Cardinality(geom.cells) * CellArea
    ELSE Cardinality(geom.cells)

\* the maximal run of S that starts at cell c
RunFrom(S, c) == {d \in S : d >= c /\ \A e \in c..d : e \in S}

RECURSIVE PartsFrom(_, _)
PartsFrom(S, c) ==
    IF c > NCells THEN <<>>
    ELSE IF c \in S /\ (c - 1) \notin S
         THEN <<RunFrom(S, c)>> \o PartsFrom(S, c + 1)
         ELSE PartsFrom(S, c + 1)

\* the single polygons a geometry is made of, in order
Parts(geom) == PartsFrom(geom.cells, 1)

\* ------------------------------------------------------------- table rows
Range(s) == {s[i] : i \in DOMAIN s}

\* GeoDataFrame.to_crs: same rows and cells, areas now in the target's units
to_crs(gdf, crs) == [gdf EXCEPT !.crs = crs]

\* GeoSeries.buffer(0): the repaired, valid geometry over the same cells
Buffer0(geom) == Poly(geom.cells, TRUE)

\* GeoDataFrame.explode of one row: one row per part, attributes copied
ExplodeRow(row) ==
    IF row.geometry.kind = "MultiPolygon"
    THEN LET ps == Parts(row.geometry)
         IN [i \in DOMAIN ps |->
                [row EXCEPT !.geometry =
                    [kind |-> "Polygon", cells |-> ps[i], valid |-> row.geometry.valid]]]
    ELSE <<row>>

\* GeoDataFrame.explode and reset_index: the parts of every row, in row order
RECURSIVE Explode(_)
Explode(rows) ==
    IF rows = <<>> THEN <<>> ELSE ExplodeRow(Head(rows)) \o Explode(Tail(rows))

IsPolygonal(row) == row.geometry.kind \in {"Polygon", "MultiPolygon"}
NotNull(row) == row.geometry.kind # "Null"
IsPolygon(row) == row.geometry.kind = "Polygon"

_to_polygons_only(gdf, raises) ==
    LET notna == SelectSeq(gdf.rows, NotNull)
        polys == SelectSeq(notna, IsPolygonal)
        fixed == IF raises THEN polys
                 ELSE [i \in DOMAIN polys |->
                         [polys[i] EXCEPT !.geometry = Buffer0(polys[i].geometry)]]
        exploded == Explode(fixed)
    IN [gdf EXCEPT !.rows = SelectSeq(exploded, IsPolygon)]

\* -------------------------------------------------------------- fractions
RECURSIVE GCD(_, _)
GCD(a, b) == IF b = 0 THEN a ELSE GCD(b, a % b)

Abs(x) == IF x < 0 THEN -x ELSE x

\* the float n/d for d > 0, in lowest terms; n/0 is inf for n > 0 and NaN for n = 0
Frac(n, d) ==
    IF d = 0 THEN [n |-> IF n = 0 THEN 0 ELSE 1, d |-> 0]
    ELSE LET g == GCD(Abs(n), d) IN [n |-> n \div g, d |-> d \div g]

Zero == Frac(0, 1)
One == Frac(1, 1)
Less(a, b) == a.n * b.d < b.n * a.d
IsInf(a) == a.d = 0 /\ a.n # 0

MinOf(S) == CHOOSE lo \in S : \A x \in S : ~Less(x, lo)
MaxOf(S) == CHOOSE hi \in S : \A x \in S : ~Less(hi, x)

\* ------------------------------------------------------- overlay, merge
\* a spatial join in place of the intersection: every fragment carries the
\* area of the whole green polygon
OverlayWholeFeature(gm, bg) ==
    {[green |-> i, unit |-> j, GEOID |-> bg.rows[j].GEOID,
      green_area |-> Area(gm.rows[i].geometry, gm.crs)] :
        <<i, j>> \in {p \in (DOMAIN gm.rows) \X (DOMAIN bg.rows) :
            gm.rows[p[1]].geometry.cells \cap bg.rows[p[2]].geometry.cells # {}}}

\* gpd.overlay(green_meters, city_bg_meters[["GEOID", "geometry"]], how="intersection")
\* with intersect["green_area"] = intersect.geometry.area: one fragment per
\* intersecting pair of a green row and a unit row
Overlay(gm, bg) ==
    {[green |-> i, unit |-> j, GEOID |-> bg.rows[j].GEOID,
      green_area |-> Cardinality(gm.rows[i].geometry.cells
                                   \cap bg.rows[j].geometry.cells) * CellArea] :
        <<i, j>> \in {p \in (DOMAIN gm.rows) \X (DOMAIN bg.rows) :
            gm.rows[p[1]].geometry.cells \cap bg.rows[p[2]].geometry.cells # {}}}

RECURSIVE SumArea(_)
SumArea(frags) ==
    IF frags = {} THEN 0
    ELSE LET f == CHOOSE f \in frags : TRUE
         IN f.green_area + SumArea(frags \ {f})

\* intersect.groupby("GEOID", as_index=False)["green_area"].sum()
GroupSum(frags) ==
    [g \in {f.GEOID : f \in frags} |-> SumArea({f \in frags : f.GEOID = g})]

\* city_bg_meters["blockgroup_area"] = city_bg_meters.geometry.area, then
\* city_bg_meters.merge(green_by_bg, on="GEOID", how="left") and fillna(0.0)
MergeRow(row, crs, sums) ==
    [GEOID |-> row.GEOID, population |-> row.population, geometry |-> row.geometry,
     blockgroup_area |-> Area(row.geometry, crs),
     green_area |-> IF row.GEOID \in DOMAIN sums THEN sums[row.GEOID] ELSE 0]

Merge(bg, sums) ==
    [bg EXCEPT !.rows = [i \in DOMAIN bg.rows |-> MergeRow(bg.rows[i], bg.crs, sums)]]

\* ------------------------------------------------------- metric deriver
\* (output["green_area"] / output["blockgroup_area"]).fillna(0.0)
GreenPercentage(ga, ba) ==
    LET q == Frac(ga, ba) IN IF q = NaN THEN Zero ELSE q

\* output["population"].fillna(0).clip(lower=0)
ClampPopulation(p) ==
    LET filled == IF p = NullPop THEN 0 ELSE p[1]
    IN IF filled < 0 THEN 0 ELSE filled

\* the division without the guard on the population
PerPersonUnguarded(ga, pop) == Frac(ga, pop)

\* row["green_area"] / row["population"] if row["population"] > 0 else 0.0
PerPerson(ga, pop) == IF pop > 0 THEN Frac(ga, pop) ELSE Zero

DeriveRow(row) ==
    LET pop == ClampPopulation(row.population)
    IN [GEOID |-> row.GEOID, geometry |-> row.geometry,
        blockgroup_area |-> row.blockgroup_area, green_area |-> row.green_area,
        green_percentage |-> GreenPercentage(row.green_area, row.blockgroup_area),
        population |-> pop,
        green_area_per_person |-> PerPerson(row.green_area, pop)]

\* ------------------------------------------------------ score normalizer
\* the normalization without the guard hi > lo
NormUnguarded(v, lo, hi) ==
    Frac((v.n * lo.d - lo.n * v.d) * hi.d, v.d * (hi.n * lo.d - lo.n * hi.d))

\* the normalization that yields 1.0 for a uniform series
NormDegenerateOne(v, lo, hi) ==
    IF ~Less(lo, hi) THEN One
    ELSE Frac((v.n * lo.d - lo.n * v.d) * hi.d, v.d * (hi.n * lo.d - lo.n * hi.d))

\* one element of minmax(series): (s - lo) / (hi - lo) if hi > lo else 0.0
Norm(v, lo, hi) ==
    IF ~Less(lo, hi) THEN Zero
    ELSE IF IsInf(hi) THEN (IF IsInf(v) THEN NaN ELSE Zero)
    ELSE Frac((v.n * lo.d - lo.n * v.d) * hi.d, v.d * (hi.n * lo.d - lo.n * hi.d))

minmax(series) ==
    IF series = <<>> THEN <<>>
    ELSE LET s == [i \in DOMAIN series |-> IF series[i] = NaN THEN Zero ELSE series[i]]
             lo == MinOf(Range(s))
             hi == MaxOf(Range(s))
         IN [i \in DOMAIN s |-> Norm(s[i], lo, hi)]

\* the composite without the offset of 1
CompositeNoOffset(p, q) ==
    IF p = NaN \/ q = NaN THEN NaN
    ELSE Frac(ScoreSpan * (p.n * q.d + q.n * p.d), 2 * p.d * q.d)

\* (0.5 * percentage_norm + 0.5 * per_person_norm) * 99 + 1
Composite(p, q) ==
    IF p = NaN \/ q = NaN THEN NaN
    ELSE Frac(ScoreSpan * (p.n * q.d + q.n * p.d) + ScoreBase * 2 * p.d * q.d,
              2 * p.d * q.d)

\* Series.round(1): to the nearest tenth, a tie to the even tenth
Round1(x) ==
    IF x = NaN THEN NaN
    ELSE LET t == (10 * x.n) \div x.d
             r == (10 * x.n) % x.d
             up == 2 * r > x.d \/ (2 * r = x.d /\ t % 2 = 1)
         IN Frac(IF up THEN t + 1 ELSE t, 10)

\* Series.clip(1, 100)
Clip(x) ==
    IF x = NaN THEN NaN
    ELSE IF Less(x, Frac(ScoreMin, 1)) THEN Frac(ScoreMin, 1)
    ELSE IF Less(Frac(ScoreMax, 1), x) THEN Frac(ScoreMax, 1)
    ELSE x

GreenScore(p, q) == Clip(Round1(Composite(p, q)))

ScoreRow(row, p, q) ==
    [GEOID |-> row.GEOID, geometry |-> row.geometry,
     blockgroup_area |-> row.blockgroup_area, green_area |-> row.green_area,
     green_percentage |-> row.green_percentage, population |-> row.population,
     green_area_per_person |-> row.green_area_per_person,
     green_score |-> GreenScore(p, q)]

Column(rows, name) == [i \in DOMAIN rows |-> rows[i][name]]

\* ------------------------------------------------------------------ inputs
\* the geometry of a unit that covers the cells S; a unit that covers no
\* cell carries a null geometry or an empty polygon
UnitGeoms(S) ==
    IF S = {} THEN {NullGeom, Poly({}, TRUE)} ELSE {Poly(S, TRUE)}

\* the units are numbered from west to east by their first cell, the units
\* without a cell last: compute_metrics reads GEOID only as a grouping and
\* merge key (lines 171, 176), so a renaming of the units changes no value
Owners(n) ==
    {owner \in [Cells -> 0..n] :
        \A i \in 1..n : \A j \in 1..n :
            (i < j /\ \E c \in Cells : owner[c] = j)
                => \E c \in Cells : owner[c] = i /\ \A e \in Cells : owner[e] = j => c < e}

\* unit tables of n block groups that do not overlap: cell c belongs to
\* unit owner[c], or to no unit when owner[c] = 0.  A column that the table
\* lacks holds nothing in any row.
UnitTables(n, cols) ==
    {[crs |-> EPSG_GEO, columns |-> cols,
      rows |-> [i \in 1..n |->
                  [GEOID |-> IF "GEOID" \in cols THEN GEOIDS[i] ELSE "",
                   population |-> pops[i], geometry |-> geoms[i]]]] :
        pops \in IF "population" \in cols THEN [1..n -> PopValues]
                 ELSE [1..n -> {NullPop}],
        geoms \in IF "geometry" \in cols
                  THEN UNION {{g \in [1..n -> UNION {UnitGeoms(S) : S \in SUBSET Cells}] :
                                 \A i \in 1..n : g[i] \in UnitGeoms({c \in Cells : owner[c] = i})} :
                              owner \in Owners(n)}
                  ELSE [1..n -> {NullGeom}]}

\* green-space features as ingest.py writes them (lines 104-107): valid
\* polygons and multi-polygons, over any cells
GreenGeoms == {Poly(S, TRUE) : S \in (SUBSET Cells) \ {{}}}

\* any geometry a raw collection may hold: null, point, line, valid or
\* invalid polygons and multi-polygons, and a self-intersecting polygon whose
\* repair has several parts
AnyGeoms ==
    {NullGeom, PointGeom, LineGeom}
        \cup {Poly(S, ok) : S \in SUBSET Cells, ok \in BOOLEAN}
        \cup {[kind |-> "Polygon", cells |-> S, valid |-> FALSE] :
                S \in {T \in SUBSET Cells : ~IsRun(T)}}

RECURSIVE Code(_)
Code(S) == IF S = {} THEN 0 ELSE LET c == CHOOSE c \in S : TRUE IN 2 ^ c + Code(S \ {c})

\* tables of at most max features with a geometry column only.  The rows are
\* listed in one fixed order of their geometries: the overlay and the grouped
\* sum do not depend on the order of the rows.
Tables(geoms, max) ==
    {[crs |-> EPSG_GEO, columns |-> {"geometry"},
      rows |-> [i \in 1..n |-> [geometry |-> g[i]]]] :
        <<n, g>> \in UNION {{<<m, h>> : h \in {k \in [1..m -> geoms] :
                                \A i \in 1..m : \A j \in i..m :
                                    Code(k[i].cells) <= Code(k[j].cells)}} :
                            m \in 0..max}}

Locals ==
    /\ pc = "start"
    /\ failedAt = "none"
    /\ city_bg_meters = NoTable
    /\ green_meters = NoTable
    /\ intersect = {}
    /\ green_by_bg = <<>>
    /\ output = NoTable
    /\ percentage_norm = <<>>
    /\ per_person_norm = <<>>
    /\ city_score = NoTable
    /\ outfile = NoTable

GreenTables == Tables(GreenGeoms, MaxGreens)

\* the block-group tables that have every column
CompleteUnitTables == UNION {UnitTables(n, AllColumns) : n \in 0..Len(GEOIDS)}

\* the block-group tables that lack at most one column
ColumnSets == {AllColumns} \cup {AllColumns \ {c} : c \in AllColumns}
ShapedUnitTables ==
    UNION {UnitTables(n, cols) : n \in 0..Len(GEOIDS), cols \in ColumnSets}

\* raw collections of any geometries, with the attributes of block groups
RawUnitTables ==
    UNION {{[crs |-> EPSG_GEO, columns |-> AllColumns,
             rows |-> [i \in 1..n |-> [GEOID |-> GEOIDS[i], population |-> pops[i],
                                       geometry |-> geoms[i]]]] :
               pops \in [1..n -> {NullPop, <<MaxPop>>}], geoms \in [1..n -> AnyGeoms]} :
           n \in 0..Len(GEOIDS)}
RawTables == Tables(AnyGeoms, MaxGreens)

\* main on well-formed inputs: a table of block groups with every column and
\* valid geometries, which buffer(0) repairs without raising
Init ==
    /\ city_bg \in CompleteUnitTables
    /\ greens \in GreenTables
    /\ bufferRaises = FALSE
    /\ Locals

\* main on a table of block groups that may lack a column
InitShape ==
    /\ city_bg \in ShapedUnitTables
    /\ greens \in GreenTables
    /\ bufferRaises = FALSE
    /\ Locals

\* the sanitizer on raw collections, whose repair may raise
InitSanitize ==
    /\ city_bg \in RawUnitTables
    /\ greens \in RawTables
    /\ bufferRaises \in BOOLEAN
    /\ Locals

\* ----------------------------------------------------------------- actions
Raise(stage) ==
    /\ pc' = "error"
    /\ failedAt' = stage

\* compute_metrics, lines 139-164: reproject to meters and sanitize both tables
Sanitize ==
    /\ pc = "start"
    /\ IF "geometry" \in city_bg.columns
       THEN /\ city_bg_meters' =
                  _to_polygons_only(to_crs(city_bg, EPSG_METERS), bufferRaises)
            /\ green_meters' =
                  _to_polygons_only(to_crs(greens, EPSG_METERS), bufferRaises)
            /\ pc' = "sanitized"
            /\ UNCHANGED failedAt
       ELSE /\ Raise("to_crs")
            /\ UNCHANGED <<city_bg_meters, green_meters>>
    /\ UNCHANGED <<city_bg, greens, bufferRaises, intersect, green_by_bg, output,
                   percentage_norm, per_person_norm, city_score, outfile>>

\* compute_metrics, lines 167-177: overlay, sum per GEOID, merge onto the units
Aggregate ==
    /\ pc = "sanitized"
    /\ IF "GEOID" \in city_bg_meters.columns
       THEN /\ intersect' = Overlay(green_meters, city_bg_meters)
            /\ green_by_bg' = GroupSum(intersect')
            /\ output' = Merge(city_bg_meters, green_by_bg')
            /\ pc' = "aggregated"
            /\ UNCHANGED failedAt
       ELSE /\ Raise("overlay")
            /\ UNCHANGED <<intersect, green_by_bg, output>>
    /\ UNCHANGED <<city_bg, greens, bufferRaises, city_bg_meters, green_meters,
                   percentage_norm, per_person_norm, city_score, outfile>>

\* compute_metrics, lines 180-189: green_percentage, population, green_area_per_person
Derive ==
    /\ pc = "aggregated"
    /\ IF "population" \in output.columns
       THEN /\ output' = [output EXCEPT
                            !.rows = [i \in DOMAIN output.rows |-> DeriveRow(output.rows[i])]]
            /\ pc' = "derived"
            /\ UNCHANGED failedAt
       ELSE /\ Raise("population")
            /\ UNCHANGED output
    /\ UNCHANGED <<city_bg, greens, bufferRaises, city_bg_meters, green_meters,
                   intersect, green_by_bg, percentage_norm, per_person_norm,
                   city_score, outfile>>

\* compute_metrics, lines 191-209: normalize, score, return to main in EPSG:4326
Score ==
    /\ pc = "derived"
    /\ percentage_norm' = minmax(Column(output.rows, "green_percentage"))
    /\ per_person_norm' = minmax(Column(output.rows, "green_area_per_person"))
    /\ output' = [output EXCEPT
                    !.rows = [i \in DOMAIN output.rows |->
                                ScoreRow(output.rows[i], percentage_norm'[i],
                                         per_person_norm'[i])]]
    /\ city_score' = to_crs(output', EPSG_GEO)
    /\ pc' = "returned"
    /\ UNCHANGED <<city_bg, greens, bufferRaises, failedAt, city_bg_meters, green_meters,
                   intersect, green_by_bg, outfile>>

\* main, lines 220-221: city_score.to_file(outpath)
Save ==
    /\ pc = "returned"
    /\ outfile' = city_score
    /\ pc' = "saved"
    /\ UNCHANGED <<city_bg, greens, bufferRaises, failedAt, city_bg_meters, green_meters,
                   intersect, green_by_bg, output, percentage_norm, per_person_norm,
                   city_score>>

\* compute_metrics
Next ==
    \/ Sanitize
    \/ Aggregate
    \/ Derive
    \/ Score

\* main: compute_metrics, then the write of its result
NextMain ==
    \/ Next
    \/ Save

Spec == Init /\ [][Next]_vars

SpecShape == InitShape /\ [][NextMain]_vars

SpecSanitize == InitSanitize /\ [][Sanitize]_vars

\* ------------------------------------------------------------------ claims
Returned == pc \in {"returned", "saved"}

\* the input block group with identifier g
InputRow(g) == CHOOSE r \in Range(city_bg.rows) : r.GEOID = g

\* the area of the green-space input features 1..k that lies on the cells S
RECURSIVE GreenInside(_, _)
GreenInside(S, k) ==
    IF k = 0 THEN 0
    ELSE Cardinality(greens.rows[k].geometry.cells \cap S) * CellArea + GreenInside(S, k - 1)

SameEverywhere(series) == \A i \in DOMAIN series : \A j \in DOMAIN series : series[i] = series[j]
IsMaxOf(series, i) == \A j \in DOMAIN series : ~Less(series[i], series[j])
IsMinOf(series, i) == \A j \in DOMAIN series : ~Less(series[j], series[i])

\* C1: every record compute_metrics returns has a green_score that is a number
\* in the closed interval [1, 100].
C1_ScoreInRange ==
    Returned => \A i \in DOMAIN city_score.rows :
        LET x == city_score.rows[i].green_score
        IN x # NaN /\ ~IsInf(x) /\ ~Less(x, Frac(1, 1)) /\ ~Less(Frac(100, 1), x)

\* a returned table with a score strictly inside the interval, from units one
\* of which has a null or negative population
C1_Witness ==
    /\ pc = "returned"
    /\ \E k \in DOMAIN city_bg.rows : city_bg.rows[k].population \in {NullPop, <<-1>>}
    /\ \E i \in DOMAIN city_score.rows :
        /\ Less(Frac(1, 1), city_score.rows[i].green_score)
        /\ Less(city_score.rows[i].green_score, Frac(100, 1))

\* C2: in every returned record the green_area does not exceed the
\* blockgroup_area of that record, so that green_percentage lies in [0, 1].
C2_PercentageAtMostOne ==
    \A i \in DOMAIN city_score.rows :
        LET r == city_score.rows[i]
        IN /\ r.green_area <= r.blockgroup_area
           /\ ~Less(r.green_percentage, Zero)
           /\ ~Less(One, r.green_percentage)

\* C3: a record whose unit has a null, zero or negative population carries
\* population >= 0 and green_area_per_person exactly 0.0; a record whose unit
\* has a positive population carries green_area / population.
C3_PerPerson ==
    Returned => \A i \in DOMAIN city_score.rows :
        LET r == city_score.rows[i]
            p == InputRow(r.GEOID).population
        IN /\ r.population >= 0
           /\ IF p = NullPop \/ p[1] <= 0
              THEN r.green_area_per_person = Zero
              ELSE r.green_area_per_person = Frac(r.green_area, p[1])

\* a returned table with green area on a unit without population and on a
\* unit with a positive population
C3_Witness ==
    /\ pc = "returned"
    /\ \E i \in DOMAIN city_score.rows : \E j \in DOMAIN city_score.rows :
        /\ InputRow(city_score.rows[i].GEOID).population \in {NullPop, <<-1>>, <<0>>}
        /\ city_score.rows[i].green_area > 0
        /\ InputRow(city_score.rows[j].GEOID).population = <<MaxPop>>
        /\ city_score.rows[j].green_area > 0

\* C4: when all records of a run have the same green_percentage and the same
\* green_area_per_person, both normalized metrics are 0.0 for every record and
\* every green_score is exactly 1.0.
C4_Degenerate ==
    (/\ Returned
     /\ SameEverywhere(Column(city_score.rows, "green_percentage"))
     /\ SameEverywhere(Column(city_score.rows, "green_area_per_person")))
    => \A i \in DOMAIN city_score.rows :
            /\ percentage_norm[i] = Zero
            /\ per_person_norm[i] = Zero
            /\ city_score.rows[i].green_score = One

\* a returned table of two records with the same positive metrics
C4_Witness ==
    /\ pc = "returned"
    /\ Len(city_score.rows) = 2
    /\ SameEverywhere(Column(city_score.rows, "green_percentage"))
    /\ SameEverywhere(Column(city_score.rows, "green_area_per_person"))
    /\ Less(Zero, city_score.rows[1].green_percentage)
    /\ Less(Zero, city_score.rows[1].green_area_per_person)

\* C5: the returned table has exactly one record for each identifier of the
\* input unit table, and no other record.
C5_SameIdentifiers ==
    Returned =>
        /\ \A k \in DOMAIN city_bg.rows :
              Cardinality({i \in DOMAIN city_score.rows :
                              city_score.rows[i].GEOID = city_bg.rows[k].GEOID}) = 1
        /\ \A i \in DOMAIN city_score.rows :
              \E k \in DOMAIN city_bg.rows : city_bg.rows[k].GEOID = city_score.rows[i].GEOID

\* C6: the blockgroup_area of a returned record is the area of the whole unit,
\* the sum of the areas of all its parts.
C6_WholeUnitArea ==
    \A i \in DOMAIN city_score.rows :
        city_score.rows[i].blockgroup_area =
            Cardinality(InputRow(city_score.rows[i].GEOID).geometry.cells) * CellArea

\* two records of two units with equal positive population and equal
\* blockgroup_area, the first with green area and the second without
C7_Scenario(a, b) ==
    /\ Len(city_score.rows) = 2
    /\ city_score.rows[a].GEOID # city_score.rows[b].GEOID
    /\ city_score.rows[a].population = city_score.rows[b].population
    /\ city_score.rows[a].population > 0
    /\ city_score.rows[a].blockgroup_area = city_score.rows[b].blockgroup_area
    /\ city_score.rows[a].green_area > 0
    /\ city_score.rows[b].green_area = 0

\* C7: in the two-unit scenario the unit without green area has
\* green_percentage 0.0, the normalized metrics are 1.0 and 0.0 and the scores
\* 100.0 and 1.0; whenever both metrics are non-uniform a record at the maximum
\* of both scores 100.0 and one at the minimum of both scores 1.0; and every
\* score is round((0.5 * percentage_norm + 0.5 * per_person_norm) * 99 + 1, 1).
C7_Scoring ==
    Returned =>
        LET rows == city_score.rows
            gp == Column(rows, "green_percentage")
            pp == Column(rows, "green_area_per_person")
        IN /\ \A a \in DOMAIN rows : \A b \in DOMAIN rows :
                C7_Scenario(a, b) =>
                    /\ rows[b].green_percentage = Zero
                    /\ percentage_norm[a] = One /\ per_person_norm[a] = One
                    /\ percentage_norm[b] = Zero /\ per_person_norm[b] = Zero
                    /\ rows[a].green_score = Frac(100, 1)
                    /\ rows[b].green_score = Frac(1, 1)
           /\ (~SameEverywhere(gp) /\ ~SameEverywhere(pp)) =>
                \A i \in DOMAIN rows :
                    /\ (IsMaxOf(gp, i) /\ IsMaxOf(pp, i)) => rows[i].green_score = Frac(100, 1)
                    /\ (IsMinOf(gp, i) /\ IsMinOf(pp, i)) => rows[i].green_score = Frac(1, 1)
           /\ \A i \in DOMAIN rows :
                rows[i].green_score =
                    Round1(Frac(99 * (percentage_norm[i].n * per_person_norm[i].d
                                        + per_person_norm[i].n * percentage_norm[i].d)
                                  + 2 * percentage_norm[i].d * per_person_norm[i].d,
                                2 * percentage_norm[i].d * per_person_norm[i].d))

\* the two-unit scenario, returned
C7_Witness ==
    /\ pc = "returned"
    /\ \E a \in DOMAIN city_score.rows : \E b \in DOMAIN city_score.rows : C7_Scenario(a, b)

\* C8: every record carries as green_area the area of the green-space features
\* that lies inside its unit, so a polygon straddling two adjacent units gives
\* each the nonzero area of its portion inside that unit; and the fragments of
\* one green-space polygon add up to at most that polygon's area.
C8_Overlay ==
    /\ Returned =>
          \A i \in DOMAIN city_score.rows :
              city_score.rows[i].green_area =
                  GreenInside(InputRow(city_score.rows[i].GEOID).geometry.cells,
                              Len(greens.rows))
    /\ pc = "aggregated" =>
          \A k \in DOMAIN green_meters.rows :
              SumArea({f \in intersect : f.green = k})
                  <= Area(green_meters.rows[k].geometry, EPSG_METERS)

\* one green polygon over two adjacent cells of two different units, both of
\* which got a nonzero green_area, and part of the polygon outside both
C8_Witness ==
    /\ pc = "returned"
    /\ Len(greens.rows) = 1
    /\ greens.rows[1].geometry.kind = "Polygon"
    /\ \E a \in DOMAIN city_score.rows : \E b \in DOMAIN city_score.rows :
        /\ city_score.rows[a].GEOID # city_score.rows[b].GEOID
        /\ city_score.rows[a].green_area > 0
        /\ city_score.rows[b].green_area > 0
        /\ city_score.rows[a].green_area + city_score.rows[b].green_area
              < Area(greens.rows[1].geometry, EPSG_METERS)
        /\ \E c \in greens.rows[1].geometry.cells :
            /\ c \in city_score.rows[a].geometry.cells
            /\ (c + 1) \in city_score.rows[b].geometry.cells
            /\ (c + 1) \in greens.rows[1].geometry.cells

\* C9: every record leaving the sanitizer has a non-null, single-part, valid
\* polygon and the attributes of an input feature, also when the repair raises.
C9_SanitizedValid ==
    pc = "sanitized" =>
        /\ \A i \in DOMAIN city_bg_meters.rows :
              LET r == city_bg_meters.rows[i]
              IN /\ r.geometry.kind = "Polygon"
                 /\ r.geometry.valid
                 /\ Len(Parts(r.geometry)) <= 1
                 /\ \E k \in DOMAIN city_bg.rows :
                      /\ city_bg.rows[k].GEOID = r.GEOID
                      /\ city_bg.rows[k].population = r.population
                      /\ r.geometry.cells \subseteq city_bg.rows[k].geometry.cells
        /\ \A i \in DOMAIN green_meters.rows :
              LET r == green_meters.rows[i]
              IN /\ r.geometry.kind = "Polygon"
                 /\ r.geometry.valid
                 /\ Len(Parts(r.geometry)) <= 1

\* C10: when the unit table lacks the GEOID or the geometry column the engine
\* raises before any stage has run; and a table is returned or saved only
\* complete.
C10_FailFast ==
    /\ (pc = "error" /\ ~({"GEOID", "geometry"} \subseteq city_bg.columns)) =>
          /\ city_bg_meters = NoTable
          /\ green_meters = NoTable
          /\ intersect = {}
          /\ output = NoTable
    /\ pc = "error" => (city_score = NoTable /\ outfile = NoTable)
    /\ Returned => Len(city_score.rows) = Len(output.rows)

====
